---- MODULE Spec2Model ----
(***************************************************************************)
(* Model of model/final_model.py (FinalModel.__init__, FinalModel.forward) *)
(* and layers/MultiHeadAttention.py (MultiHeadAttention.__init__,          *)
(* MultiHeadAttention.forward).                                            *)
(*                                                                         *)
(* Two specifications share the module:                                    *)
(*   Spec     - a FinalModel is constructed from a configuration and then  *)
(*              called (forward) any number of times.                      *)
(*   SpecMHA  - a MultiHeadAttention is constructed and then called.       *)
(***************************************************************************)
EXTENDS Integers, Sequences, FiniteSets, TLC

VARIABLES
    pc,        \* FinalModel: "new" | "constructed" | "failed"
    cfg,       \* the keyword arguments FinalModel.__init__ was called with
    model,     \* the attributes of the FinalModel instance (self._xxx)
    error,     \* the exception that ended __init__, or NoError
    result,    \* what the last forward call returned or raised
    mpc,       \* MultiHeadAttention: "new" | "ready"
    mha,       \* the attributes of the MultiHeadAttention instance
    mlast      \* arguments and return value of the last forward call

vars == <<pc, cfg, model, error, result, mpc, mha, mlast>>
fmVars == <<pc, cfg, model, error, result>>
mhaVars == <<mpc, mha, mlast>>

(***************************************************************************)
(* Python values.  None, ints and bools are kept apart because the code    *)
(* tests some arguments with "is None", some with "is True" and some by    *)
(* truthiness.                                                             *)
(***************************************************************************)
PyNone == [t |-> "none", v |-> 0]
PyInt(n) == [t |-> "int", v |-> n]
PyTrue == [t |-> "bool", v |-> 1]
PyFalse == [t |-> "bool", v |-> 0]

\* x is None
IsNone(x) == x.t = "none"
\* x is True
IsTrue(x) == x.t = "bool" /\ x.v = 1
\* bool(x)
Truthy(x) == x.t # "none" /\ x.v # 0

\* a str-or-None argument that is None
NoneStr == "<None>"

(***************************************************************************)
(* Bounds of the explored configurations.                                  *)
(***************************************************************************)
MaxGruUnits == 1
MaxHeads == 3

DownSamples == {"conv", "max_pool", "avg_pool", "nearest"}
PosSkips == {"all", "not_last", "not_first", "none"}
AttentionTypes == {"v1", "v2", "v3", "v4", "v5", "v6"}
NormTypes == {"BN", "IN", "LN"}
ReducedHeadDims == {PyNone, PyInt(0), PyInt(4)}
AttentionActivations == {NoneStr, "entmax15"}
NormBeforeAct == {PyNone, PyTrue, PyFalse}

Configs ==
    [ apply_final_activation : BOOLEAN,
      multi_label_training : BOOLEAN,
      down_sample : DownSamples,
      vary_channels : BOOLEAN,
      pos_skip : PosSkips,
      norm_type : NormTypes,
      norm_before_act : NormBeforeAct,
      use_pre_activation_design : BOOLEAN,
      use_pre_conv : BOOLEAN,
      gru_units : 1..MaxGruUnits,
      heads : 1..MaxHeads,
      use_reduced_head_dims : ReducedHeadDims,
      attention_activation_function : AttentionActivations,
      attention_type : AttentionTypes ]

\* defaults of the arguments the explored configurations leave alone
InputChannel == 12
NumClasses == 9

(***************************************************************************)
(* Exceptions.  A message is the sequence of its literal and formatted     *)
(* parts, so that "the message names value v" is "v is one of its parts".  *)
(***************************************************************************)
NoError == [type |-> "none", msg |-> <<>>, line |-> 0]
Raise(type, msg, line) == [type |-> type, msg |-> msg, line |-> line]
Names(e, value) == \E i \in DOMAIN e.msg : e.msg[i] = value

(***************************************************************************)
(* Layers.  The residual blocks, the contextual attention classes and the  *)
(* torch layers are constructed by FinalModel.__init__ with the keyword    *)
(* arguments recorded here.                                                *)
(***************************************************************************)
NoLayer == [cls |-> "<unset>"]

BasicBlock1dWithNormPreactivation(cin, cout, nba) ==
    [cls |-> "BasicBlock1dWithNormPreactivation", in_channels |-> cin,
     out_channels |-> cout, skips_active |-> PyNone, norm_before_act |-> nba]

BasicBlock1dWithNorm(cin, cout, skips) ==
    [cls |-> "BasicBlock1dWithNorm", in_channels |-> cin,
     out_channels |-> cout, skips_active |-> skips, norm_before_act |-> PyNone]

StartingConv(cin, order) ==
    [cls |-> "Sequential", role |-> "starting_conv", in_channels |-> cin,
     out_channels |-> cin, order |-> order]

BiGRU(input_size, hidden_size) ==
    [cls |-> "GRU", input_size |-> input_size, hidden_size |-> hidden_size,
     bidirectional |-> TRUE]

ContextualAttention(cls, d_model, heads, head_dims, activation) ==
    [cls |-> cls, d_model |-> d_model, heads |-> heads,
     use_reduced_head_dims |-> head_dims,
     attention_activation_function |-> activation]

ActivationDropout == [cls |-> "Sequential", role |-> "activation_dropout"]
BatchNormSeq(features) ==
    [cls |-> "Sequential", role |-> "batch_norm", num_features |-> features]
Linear(fin, fout) == [cls |-> "Linear", in_features |-> fin, out_features |-> fout]
FinalActivation(cls) == [cls |-> cls]

\* the instance right after super().__init__(): no attribute assigned yet
EmptyModel ==
    [ assigned |-> {},
      _apply_final_activation |-> FALSE,
      _pos_skip |-> "<unset>",
      _use_pre_conv |-> FALSE,
      _use_pre_activation_design |-> FALSE,
      _starting_conv |-> NoLayer,
      _first_conv_block_1 |-> NoLayer,
      _first_conv_block_2 |-> NoLayer,
      _first_conv_block_3 |-> NoLayer,
      _first_conv_block_4 |-> NoLayer,
      _second_conv_block_1 |-> NoLayer,
      _biGRU |-> NoLayer,
      _biGru_activation_do |-> NoLayer,
      _multi_head_contextual_attention |-> NoLayer,
      _batchNorm |-> NoLayer,
      _fcn |-> NoLayer,
      _final_activation |-> NoLayer ]

\* self.<attr> = value
SetAttr(m, attr, value) ==
    [m EXCEPT ![attr] = value, !.assigned = m.assigned \cup {attr}]

ResidualBlocks ==
    {"_first_conv_block_1", "_first_conv_block_2", "_first_conv_block_3",
     "_first_conv_block_4", "_second_conv_block_1"}

(***************************************************************************)
(* FinalModel.__init__                                                     *)
(***************************************************************************)

\* the check with "avg_pool" forgotten
DownSampleOk_NoAvgPool(c) ==
    c.down_sample = "conv" \/ c.down_sample = "max_pool"

\* line 36
DownSampleOk(c) ==
    c.down_sample = "conv" \/ c.down_sample = "max_pool" \/ c.down_sample = "avg_pool"

\* the check made by truthiness instead of "is None"
ReducedHeadDimsOk_Truthy(c) ==
    ~Truthy(c.use_reduced_head_dims) \/ c.attention_type = "v1"

\* line 39
ReducedHeadDimsOk(c) ==
    IsNone(c.use_reduced_head_dims) \/ c.attention_type = "v1"

\* line 42
AttentionActivationOk(c) ==
    c.attention_activation_function = NoneStr \/ c.attention_type = "v1"

\* the divisibility check left out
HeadsDivideOk_Unchecked(c) == TRUE

\* lines 45-46: the assertion is made only under "if use_reduced_head_dims:"
HeadsDivideOk(c) ==
    IF Truthy(c.use_reduced_head_dims)
    THEN (2 * c.gru_units) % c.heads = 0
    ELSE TRUE

\* the check accepting "not_first" as the post-activation design does
PosSkipOk_AcceptsNotFirst(c) ==
    c.pos_skip = "all" \/ c.pos_skip = "not_last" \/ c.pos_skip = "not_first"

\* line 50
PosSkipOk(c) == c.pos_skip = "all" \/ c.pos_skip = "not_last"

\* the check turned around: normalization after activation required
NormBeforeActOk_Flipped(c) == IsNone(c.norm_before_act) \/ c.norm_before_act = PyFalse

\* line 55
NormBeforeActOk(c) == IsNone(c.norm_before_act) \/ IsTrue(c.norm_before_act)

\* lines 36-56: the precondition assertions, in the order the code makes them
CheckArguments(c) ==
    IF ~DownSampleOk(c)
    THEN Raise("AssertionError",
               <<"Downsampling should either be conv or max_pool or avg_pool">>, 36)
    ELSE IF ~ReducedHeadDimsOk(c)
    THEN Raise("AssertionError",
               <<"use_reduced_head_dims can only be used with attention_type=v1!">>, 39)
    ELSE IF ~AttentionActivationOk(c)
    THEN Raise("AssertionError",
               <<"attention_activation_function can only be used with attention_type=v1!">>, 42)
    ELSE IF ~HeadsDivideOk(c)
    THEN Raise("AssertionError",
               <<"Twice the number of GRU cells (d_model) must be divisible by num_heads!">>, 46)
    ELSE IF c.use_pre_activation_design
    THEN IF ~PosSkipOk(c)
         THEN Raise("AssertionError",
                    <<"For the preactivation design, ''not first'' is no validoption for the skip connections! Choose between ''all'' and ''not last''">>, 50)
         ELSE NoError
    ELSE IF ~NormBeforeActOk(c)
         THEN Raise("AssertionError",
                    <<"Norm after activation not possible without preactivation design">>, 55)
         ELSE NoError

\* lines 62-70: out_channel_block_1 .. out_channel_block_5
OutChannels(c) ==
    IF c.vary_channels THEN <<24, 48, 48, 24, 12>> ELSE <<12, 12, 12, 12, 12>>

\* the preliminary convolution built whenever use_pre_conv is set, in either
\* design
BuildStartingConv_EitherDesign(c, m) ==
    IF c.use_pre_conv
    THEN IF c.norm_type = "BN" \/ c.norm_type = "IN"
         THEN [error |-> NoError,
               model |-> SetAttr(m, "_starting_conv",
                           StartingConv(InputChannel,
                              IF Truthy(c.norm_before_act)
                              THEN <<"Conv1d", c.norm_type, "LeakyReLU">>
                              ELSE <<"Conv1d", "LeakyReLU", c.norm_type>>))]
         ELSE [error |-> Raise("UnboundLocalError", <<"starting_norm">>,
                               IF Truthy(c.norm_before_act) THEN 81 ELSE 88),
               model |-> m]
    ELSE [error |-> NoError, model |-> m]

\* lines 72-89: the preliminary convolution.  starting_norm is bound only for
\* norm_type "BN" and "IN"; any other value leaves the local unbound and the
\* nn.Sequential(...) expression that reads it raises.
BuildStartingConv(c, m) ==
    IF c.use_pre_activation_design /\ c.use_pre_conv
    THEN IF c.norm_type = "BN" \/ c.norm_type = "IN"
         THEN [error |-> NoError,
               model |-> SetAttr(m, "_starting_conv",
                           StartingConv(InputChannel,
                              IF Truthy(c.norm_before_act)
                              THEN <<"Conv1d", c.norm_type, "LeakyReLU">>
                              ELSE <<"Conv1d", "LeakyReLU", c.norm_type>>))]
         ELSE [error |-> Raise("UnboundLocalError", <<"starting_norm">>,
                               IF Truthy(c.norm_before_act) THEN 81 ELSE 88),
               model |-> m]
    ELSE [error |-> NoError, model |-> m]

\* lines 91-153: the five residual blocks of the pre-activation design
BuildPreActivationBlocks(c, m) ==
    LET oc == OutChannels(c)
        nba == c.norm_before_act
        m1 == SetAttr(m, "_first_conv_block_1",
                      BasicBlock1dWithNormPreactivation(InputChannel, oc[1], nba))
        m2 == SetAttr(m1, "_first_conv_block_2",
                      BasicBlock1dWithNormPreactivation(oc[1], oc[2], nba))
        m3 == SetAttr(m2, "_first_conv_block_3",
                      BasicBlock1dWithNormPreactivation(oc[2], oc[3], nba))
        m4 == SetAttr(m3, "_first_conv_block_4",
                      BasicBlock1dWithNormPreactivation(oc[3], oc[4], nba))
    IN  IF c.pos_skip = "all"
        THEN SetAttr(m4, "_second_conv_block_1",
                     BasicBlock1dWithNormPreactivation(oc[4], oc[5], nba))
        ELSE IF c.pos_skip = "not_last"
        THEN SetAttr(m4, "_second_conv_block_1",
                     BasicBlock1dWithNorm(oc[4], oc[5], PyFalse))
        ELSE m4

\* the post-activation blocks with pos_skip ignored: every block has skips
BuildPostActivationBlocks_AllSkips(c, m) ==
    LET oc == OutChannels(c)
        m1 == IF c.pos_skip \in {"all", "not_last", "not_first"}
              THEN SetAttr(m, "_first_conv_block_1",
                           BasicBlock1dWithNorm(InputChannel, oc[1], PyTrue))
              ELSE m
        m2 == SetAttr(m1, "_first_conv_block_2",
                      BasicBlock1dWithNorm(oc[1], oc[2], PyTrue))
        m3 == SetAttr(m2, "_first_conv_block_3",
                      BasicBlock1dWithNorm(oc[2], oc[3], PyTrue))
        m4 == SetAttr(m3, "_first_conv_block_4",
                      BasicBlock1dWithNorm(oc[3], oc[4], PyTrue))
    IN  IF c.pos_skip \in {"all", "not_last", "not_first"}
        THEN SetAttr(m4, "_second_conv_block_1",
                     BasicBlock1dWithNorm(oc[4], oc[5], PyTrue))
        ELSE m4

\* lines 155-225: the five residual blocks of the post-activation design
BuildPostActivationBlocks(c, m) ==
    LET oc == OutChannels(c)
        m1 == IF c.pos_skip = "all" \/ c.pos_skip = "not_last"
              THEN SetAttr(m, "_first_conv_block_1",
                           BasicBlock1dWithNorm(InputChannel, oc[1], PyTrue))
              ELSE IF c.pos_skip = "not_first"
              THEN SetAttr(m, "_first_conv_block_1",
                           BasicBlock1dWithNorm(InputChannel, oc[1], PyFalse))
              ELSE m
        m2 == SetAttr(m1, "_first_conv_block_2",
                      BasicBlock1dWithNorm(oc[1], oc[2], PyTrue))
        m3 == SetAttr(m2, "_first_conv_block_3",
                      BasicBlock1dWithNorm(oc[2], oc[3], PyTrue))
        m4 == SetAttr(m3, "_first_conv_block_4",
                      BasicBlock1dWithNorm(oc[3], oc[4], PyTrue))
    IN  IF c.pos_skip = "all" \/ c.pos_skip = "not_first"
        THEN SetAttr(m4, "_second_conv_block_1",
                     BasicBlock1dWithNorm(oc[4], oc[5], PyTrue))
        ELSE IF c.pos_skip = "not_last"
        THEN SetAttr(m4, "_second_conv_block_1",
                     BasicBlock1dWithNorm(oc[4], oc[5], PyFalse))
        ELSE m4

\* lines 91-225
BuildResidualBlocks(c, m) ==
    IF c.use_pre_activation_design
    THEN BuildPreActivationBlocks(c, m)
    ELSE BuildPostActivationBlocks(c, m)

\* the GRU sized by the fourth block's width instead of the fifth's
BuildBiGRU_Block4Width(c, m) ==
    SetAttr(SetAttr(m, "_biGRU", BiGRU(OutChannels(c)[4], c.gru_units)),
            "_biGru_activation_do", ActivationDropout)

\* lines 231-237
BuildBiGRU(c, m) ==
    SetAttr(SetAttr(m, "_biGRU", BiGRU(OutChannels(c)[5], c.gru_units)),
            "_biGru_activation_do", ActivationDropout)

\* lines 240-273: the layer a case of the match statement builds
AttentionLayer(c, attention_type) ==
    LET d_model == 2 * c.gru_units
        plain(cls) == ContextualAttention(cls, d_model, c.heads, PyNone, NoneStr)
    IN  CASE attention_type = "v1" ->
               LET head_dims == IF ~IsNone(c.use_reduced_head_dims)
                                THEN c.use_reduced_head_dims ELSE PyFalse
                   attention_activation ==
                       IF c.attention_activation_function # NoneStr
                       THEN c.attention_activation_function ELSE "softmax"
               IN  ContextualAttention("MultiHeadContextualAttention",
                                       d_model, c.heads, head_dims, attention_activation)
          [] attention_type = "v2" -> plain("MultiHeadContextualAttentionV2")
          [] attention_type = "v3" -> plain("MultiHeadContextualAttentionV3")
          [] attention_type = "v4" -> plain("MultiHeadContextualAttentionV4")
          [] attention_type = "v5" -> plain("MultiHeadContextualAttentionV5")

\* the match statement with a default case that falls back to "v2"
BuildAttention_Fallback(c, m) ==
    [error |-> NoError,
     model |-> SetAttr(m, "_multi_head_contextual_attention",
                 AttentionLayer(c, IF c.attention_type \in {"v1", "v2", "v3", "v4", "v5"}
                                   THEN c.attention_type ELSE "v2"))]

\* lines 239-275: match attention_type
BuildAttention(c, m) ==
    IF c.attention_type \in {"v1", "v2", "v3", "v4", "v5"}
    THEN [error |-> NoError,
          model |-> SetAttr(m, "_multi_head_contextual_attention",
                            AttentionLayer(c, c.attention_type))]
    ELSE [error |-> Raise("ValueError",
                          <<"Attention type ", c.attention_type, " not supported!">>,
                          275),
          model |-> m]

\* the final activations the wrong way round
BuildHead_Swapped(c, m) ==
    LET m1 == SetAttr(m, "_batchNorm", BatchNormSeq(c.gru_units * 2))
        m2 == SetAttr(m1, "_fcn", Linear(c.gru_units * 2, NumClasses))
    IN  IF c.apply_final_activation
        THEN SetAttr(m2, "_final_activation",
                     IF c.multi_label_training
                     THEN FinalActivation("LogSoftmax(dim=1)")
                     ELSE FinalActivation("Sigmoid"))
        ELSE m2

\* lines 277-287
BuildHead(c, m) ==
    LET m1 == SetAttr(m, "_batchNorm", BatchNormSeq(c.gru_units * 2))
        m2 == SetAttr(m1, "_fcn", Linear(c.gru_units * 2, NumClasses))
    IN  IF c.apply_final_activation
        THEN SetAttr(m2, "_final_activation",
                     IF c.multi_label_training
                     THEN FinalActivation("Sigmoid")
                     ELSE FinalActivation("LogSoftmax(dim=1)"))
        ELSE m2

\* lines 33-287: the constructor; error is NoError when it returns normally,
\* model holds the attributes assigned up to the point it returned or raised
FinalModel_init(c) ==
    LET m0 == SetAttr(EmptyModel, "_apply_final_activation", c.apply_final_activation)
        checked == CheckArguments(c)
    IN  IF checked # NoError THEN [error |-> checked, model |-> m0]
        ELSE
        LET m1 == SetAttr(SetAttr(SetAttr(m0, "_pos_skip", c.pos_skip),
                                  "_use_pre_conv", c.use_pre_conv),
                          "_use_pre_activation_design", c.use_pre_activation_design)
            pre == BuildStartingConv(c, m1)
        IN  IF pre.error # NoError THEN pre
            ELSE
            LET m3 == BuildBiGRU(c, BuildResidualBlocks(c, pre.model))
                att == BuildAttention(c, m3)
            IN  IF att.error # NoError THEN att
                ELSE [error |-> NoError, model |-> BuildHead(c, att.model)]

(***************************************************************************)
(* FinalModel.forward                                                      *)
(*                                                                         *)
(* The value threaded through forward is a tensor or an (output, residual) *)
(* pair; of a tensor the model keeps the layout, the feature width and the *)
(* final activation applied to it.  trace lists the attributes forward has *)
(* read so far, handed what each step was handed (a tensor or a pair); err *)
(* is the exception that ended the call.                                   *)
(***************************************************************************)
Tensor(layout, feat) ==
    [err |-> NoError, kind |-> "tensor", layout |-> layout, feat |-> feat,
     act |-> "none", trace |-> <<>>, handed |-> <<>>]

Failed(v, e) == [v EXCEPT !.err = e]

\* layer(x) for the layers FinalModel holds: what each returns for the value
\* it is handed
ApplyLayer(layer, v) ==
    CASE layer.cls = "BasicBlock1dWithNormPreactivation" ->
           IF v.kind # "pair"
           THEN Failed(v, Raise("TypeError", <<"pre-activation block needs (x, residuals)">>, 0))
           ELSE IF v.feat # layer.in_channels
           THEN Failed(v, Raise("RuntimeError", <<"channels">>, 0))
           ELSE [v EXCEPT !.feat = layer.out_channels]
      [] layer.cls = "BasicBlock1dWithNorm" ->
           IF v.kind # "tensor"
           THEN Failed(v, Raise("TypeError", <<"post-activation block needs a tensor">>, 0))
           ELSE IF v.feat # layer.in_channels
           THEN Failed(v, Raise("RuntimeError", <<"channels">>, 0))
           ELSE [v EXCEPT !.feat = layer.out_channels]
      [] layer.cls = "Sequential" /\ layer.role = "starting_conv" ->
           IF v.kind # "tensor"
           THEN Failed(v, Raise("TypeError", <<"conv1d needs a tensor">>, 0))
           ELSE IF v.feat # layer.in_channels
           THEN Failed(v, Raise("RuntimeError", <<"channels">>, 0))
           ELSE [v EXCEPT !.feat = layer.out_channels]
      [] layer.cls = "GRU" ->
           IF v.kind # "tensor" \/ v.layout # "BLC" \/ v.feat # layer.input_size
           THEN Failed(v, Raise("RuntimeError", <<"input_size">>, 0))
           ELSE [v EXCEPT !.feat = 2 * layer.hidden_size]
      [] layer.cls = "Sequential" /\ layer.role = "activation_dropout" -> v
      [] layer.cls = "Sequential" /\ layer.role = "batch_norm" ->
           IF v.feat # layer.num_features
           THEN Failed(v, Raise("RuntimeError", <<"num_features">>, 0))
           ELSE v
      [] layer.cls = "Linear" ->
           IF v.feat # layer.in_features
           THEN Failed(v, Raise("RuntimeError", <<"in_features">>, 0))
           ELSE [v EXCEPT !.feat = layer.out_features]
      [] layer.cls = "Sigmoid" -> [v EXCEPT !.act = "Sigmoid"]
      [] layer.cls = "LogSoftmax(dim=1)" -> [v EXCEPT !.act = "LogSoftmax(dim=1)"]
      [] OTHER ->
           \* one of the five contextual attention classes: (B, T, d) -> (B, d)
           IF v.feat # layer.d_model
           THEN Failed(v, Raise("RuntimeError", <<"d_model">>, 0))
           ELSE [v EXCEPT !.layout = "BC"]

\* x = self.<attr>(x): reading an attribute __init__ never assigned raises
Call(m, attr, v, line) ==
    IF v.err # NoError THEN v
    ELSE IF attr \notin m.assigned
    THEN Failed(v, Raise("AttributeError", <<attr>>, line))
    ELSE ApplyLayer(m[attr], [v EXCEPT !.trace = Append(v.trace, attr),
                                       !.handed = Append(v.handed, <<attr, v.kind>>)])

\* (x, x)
MakePair(v) == IF v.err # NoError THEN v ELSE [v EXCEPT !.kind = "pair"]

\* x, residuals = x
Unpack(v, line) ==
    IF v.err # NoError THEN v
    ELSE IF v.kind = "pair" THEN [v EXCEPT !.kind = "tensor"]
    ELSE Failed(v, Raise("ValueError", <<"unpack">>, line))

\* x.permute(0, 2, 1): a tuple has no permute
Permute(v, line) ==
    IF v.err # NoError THEN v
    ELSE LET w == [v EXCEPT !.handed = Append(v.handed, <<"permute", v.kind>>)]
         IN  IF v.kind # "tensor"
             THEN Failed(w, Raise("AttributeError", <<"permute">>, line))
             ELSE [w EXCEPT !.layout = "BLC"]

\* the convolutional stage with the unpacking of line 302 left out
ForwardBlocks_NoUnpack(m, x) ==
    IF m._use_pre_activation_design
    THEN LET x0 == IF m._use_pre_conv THEN Call(m, "_starting_conv", x, 292) ELSE x
             x1 == Call(m, "_first_conv_block_1", MakePair(x0), 294)
             x2 == Call(m, "_first_conv_block_2", x1, 295)
             x3 == Call(m, "_first_conv_block_3", x2, 296)
             x4 == Call(m, "_first_conv_block_4", x3, 297)
             x5 == IF m._pos_skip = "all" \/ m._pos_skip = "not_last"
                   THEN Call(m, "_second_conv_block_1", x4, 300)
                   ELSE x4
         IN  IF m._pos_skip = "all" THEN Unpack(x5, 307) ELSE x5
    ELSE LET x1 == Call(m, "_first_conv_block_1", x, 309)
             x2 == Call(m, "_first_conv_block_2", x1, 310)
             x3 == Call(m, "_first_conv_block_3", x2, 311)
             x4 == Call(m, "_first_conv_block_4", x3, 312)
         IN  Call(m, "_second_conv_block_1", x4, 313)

\* lines 290-313: the convolutional stage
ForwardBlocks(m, x) ==
    IF m._use_pre_activation_design
    THEN LET x0 == IF m._use_pre_conv THEN Call(m, "_starting_conv", x, 292) ELSE x
             x1 == Call(m, "_first_conv_block_1", MakePair(x0), 294)
             x2 == Call(m, "_first_conv_block_2", x1, 295)
             x3 == Call(m, "_first_conv_block_3", x2, 296)
             x4 == Call(m, "_first_conv_block_4", x3, 297)
             x5 == IF m._pos_skip = "all"
                   THEN Call(m, "_second_conv_block_1", x4, 300)
                   ELSE IF m._pos_skip = "not_last"
                   THEN Call(m, "_second_conv_block_1", Unpack(x4, 302), 303)
                   ELSE x4
         IN  IF m._pos_skip = "all" THEN Unpack(x5, 307) ELSE x5
    ELSE LET x1 == Call(m, "_first_conv_block_1", x, 309)
             x2 == Call(m, "_first_conv_block_2", x1, 310)
             x3 == Call(m, "_first_conv_block_3", x2, 311)
             x4 == Call(m, "_first_conv_block_4", x3, 312)
         IN  Call(m, "_second_conv_block_1", x4, 313)

\* lines 289-324
FinalModel_forward(m, x) ==
    LET x5 == ForwardBlocks(m, x)
        x6 == Permute(x5, 315)
        x7 == Call(m, "_biGRU", x6, 316)
        x8 == Call(m, "_biGru_activation_do", x7, 317)
        x9 == Call(m, "_multi_head_contextual_attention", x8, 318)
        x10 == Call(m, "_batchNorm", x9, 319)
        x11 == Call(m, "_fcn", x10, 320)
    IN  IF m._apply_final_activation
        THEN Call(m, "_final_activation", x11, 322)
        ELSE x11

(***************************************************************************)
(* Numbers and tensors for MultiHeadAttention.                             *)
(*                                                                         *)
(* A tensor is its shape and its entries, nested by 0-based index:         *)
(* x.at[b][t][c].  An entry is an exact real number: a rational n/d in     *)
(* lowest terms, plus a rational combination of symbols.  A symbol stands  *)
(* for a value of tanh or of a softmax weight that is not rational:        *)
(*   [f |-> "tanh", of |-> <<r>>, at |-> 1]      is tanh(r), r > 0         *)
(*   [f |-> "softmax", of |-> row, at |-> j]     is                        *)
(*                            exp(row[j]) / (exp(row[1]) + .. + exp(row[T]))*)
(* Nothing is rounded; two entries written alike are equal.                *)
(***************************************************************************)
RECURSIVE GCD(_, _)
GCD(a, b) == IF b = 0 THEN a ELSE GCD(b, a % b)

Abs(a) == IF a < 0 THEN -a ELSE a

Rat(n, d) ==
    LET g == GCD(Abs(n), Abs(d))
        sgn == IF d < 0 THEN -1 ELSE 1
    IN  [n |-> sgn * (n \div g), d |-> sgn * (d \div g)]

RInt(n) == [n |-> n, d |-> 1]
RAdd(x, y) ==
    IF x.d = 1 /\ y.d = 1 THEN RInt(x.n + y.n)
    ELSE Rat(x.n * y.d + y.n * x.d, x.d * y.d)
RMul(x, y) ==
    IF x.d = 1 /\ y.d = 1 THEN RInt(x.n * y.n)
    ELSE Rat(x.n * y.n, x.d * y.d)
RLess(x, y) == x.n * y.d < y.n * x.d

\* the coefficients of a number without symbols
NoSymbols == [t \in {} |-> RInt(0)]

\* the rational r, the integer n, the symbol t as numbers
Num(r) == [c |-> r, s |-> NoSymbols]
NInt(n) == Num(RInt(n))
Sym(t) == [c |-> RInt(0), s |-> [u \in {t} |-> RInt(1)]]

IsRational(x) == DOMAIN x.s = {}
Coef(x, t) == IF t \in DOMAIN x.s THEN x.s[t] ELSE RInt(0)

NAdd(x, y) ==
    IF IsRational(x) /\ IsRational(y) THEN Num(RAdd(x.c, y.c))
    ELSE LET sum == [t \in DOMAIN x.s \cup DOMAIN y.s |-> RAdd(Coef(x, t), Coef(y, t))]
             kept == {t \in DOMAIN sum : sum[t].n # 0}
         IN  [c |-> RAdd(x.c, y.c), s |-> [t \in kept |-> sum[t]]]

\* x times the rational r
NScale(x, r) ==
    IF IsRational(x) THEN Num(RMul(x.c, r))
    ELSE IF r.n = 0 THEN NInt(0)
    ELSE [c |-> RMul(x.c, r), s |-> [t \in DOMAIN x.s |-> RMul(x.s[t], r)]]

\* x times y, one of them rational (no step of forward multiplies two entries
\* that both hold symbols)
NMul(x, y) ==
    CASE IsRational(y) -> NScale(x, y.c)
      [] IsRational(x) -> NScale(y, x.c)

\* sum of f(i) for i in lo..hi
RECURSIVE NSum(_, _, _)
NSum(f(_), lo, hi) == IF lo > hi THEN NInt(0) ELSE NAdd(f(lo), NSum(f, lo + 1, hi))

\* the rank-3 tensor of shape (n0, n1, n2) whose entry (a, b, c) is f(a, b, c)
\* (g @@ <<>> is g; it makes TLC tabulate the entries once)
T3(n0, n1, n2, f(_, _, _)) ==
    [shape |-> <<n0, n1, n2>>,
     at |-> [a \in 0..(n0 - 1) |->
               [b \in 0..(n1 - 1) |->
                  [c \in 0..(n2 - 1) |-> f(a, b, c)] @@ <<>>] @@ <<>>] @@ <<>>]

\* the values a freshly constructed nn.Linear may hold: torch draws every
\* weight and bias from the open interval (-1/sqrt(in_features),
\* 1/sqrt(in_features)); these lie in it for in_features <= 15
WeightValues == <<Rat(1, 4), Rat(-1, 4), Rat(1, 8)>>
BiasValues == <<Rat(-1, 8), Rat(1, 4), Rat(-1, 4)>>

\* nn.Linear(in_features, out_features) after construction: weight[i][j]
\* multiplies input feature i into output feature j (the transpose of torch's
\* storage), bias[j] is added; seed picks one of the draws explored
LinearLayer(fin, fout, seed) ==
    [cls |-> "Linear", in_features |-> fin, out_features |-> fout,
     weight |-> [i \in 0..(fin - 1) |->
                   [j \in 0..(fout - 1) |-> WeightValues[((i + 2 * j + seed) % 3) + 1]]],
     bias |-> [j \in 0..(fout - 1) |-> BiasValues[((j + seed) % 3) + 1]]]

\* layer(x) for x of shape (B, L, in_features)
LinearApply(layer, x) ==
    T3(x.shape[1], x.shape[2], layer.out_features,
       LAMBDA b, t, j :
           NAdd(NSum(LAMBDA i : NScale(x.at[b][t][i], layer.weight[i][j]),
                     0, layer.in_features - 1),
                Num(layer.bias[j])))

\* tanh of a rational: 0 at 0, odd, and otherwise not rational
Tanh(x) ==
    IF x.c.n = 0 THEN NInt(0)
    ELSE IF x.c.n > 0 THEN Sym([f |-> "tanh", of |-> <<x>>, at |-> 1])
    ELSE NScale(Sym([f |-> "tanh", of |-> <<NScale(x, RInt(-1))>>, at |-> 1]), RInt(-1))

\* nn.Tanh()(x), x the output of a linear layer on rational input
TanhApply(x) ==
    T3(x.shape[1], x.shape[2], x.shape[3], LAMBDA b, t, j : Tanh(x.at[b][t][j]))

\* torch.chunk sizes: chunks of ceil(n / chunks) entries, as many as are needed
ChunkSize(n, chunks) == (n + chunks - 1) \div chunks
ChunkCount(n, chunks) == (n + ChunkSize(n, chunks) - 1) \div ChunkSize(n, chunks)

\* the split with the head index varying fastest along the batch axis:
\* element (b, t, i*d + j) goes to (b*H + i, t, j)
SplitHeads_Interleaved(x, h) ==
    LET d == ChunkSize(x.shape[3], h)
        n == ChunkCount(x.shape[3], h)
    IN  T3(n * x.shape[1], x.shape[2], d,
           LAMBDA nb, t, j : x.at[nb \div n][t][(nb % n) * d + j])

\* torch.cat(x.chunk(h, dim=-1), dim=0) for chunks of equal width:
\* (B, L, H*d) -> (H*B, L, d)
SplitHeads(x, h) ==
    LET B == x.shape[1]
        d == ChunkSize(x.shape[3], h)
        n == ChunkCount(x.shape[3], h)
    IN  T3(n * B, x.shape[2], d,
           LAMBDA nb, t, j : x.at[nb % B][t][(nb \div B) * d + j])

\* torch.cat(x.chunk(h, dim=0), dim=-1) for chunks of equal size:
\* (H*B, L, v) -> (B, L, H*v)
ConcatHeads(x, h) ==
    LET B == ChunkSize(x.shape[1], h)
        n == ChunkCount(x.shape[1], h)
        v == x.shape[3]
    IN  T3(B, x.shape[2], n * v,
           LAMBDA b, t, c : x.at[(c \div v) * B + b][t][c % v])

\* x.transpose(1, 2)
Transpose12(x) ==
    T3(x.shape[1], x.shape[3], x.shape[2], LAMBDA n, a, b : x.at[n][b][a])

\* torch.bmm(a, b): (N, L, m) x (N, m, P) -> (N, L, P)
Bmm(a, b) ==
    T3(a.shape[1], a.shape[2], b.shape[3],
       LAMBDA n, i, j :
           NSum(LAMBDA m : NMul(a.at[n][i][m], b.at[n][m][j]),
                0, a.shape[3] - 1))

BmmShapesOk(a, b) == a.shape[1] = b.shape[1] /\ a.shape[3] = b.shape[2]

\* np.sqrt(k) for the key dimensions explored (perfect squares)
Sqrt(k) == CHOOSE r \in 0..k : r * r = k

\* x / np.sqrt(k)
Scale(x, k) ==
    LET factor == Rat(1, Sqrt(k))
    IN  T3(x.shape[1], x.shape[2], x.shape[3],
           LAMBDA n, i, j : NScale(x.at[n][i][j], factor))

\* F.softmax(x, dim=-1): entry j of a row is exp(row[j]) / sum(exp(row[m])),
\* which is 1/T when the T scores of the row are equal
Softmax(x) ==
    LET T == x.shape[3]
    IN  [shape |-> x.shape,
         at |-> [n \in 0..(x.shape[1] - 1) |->
                   [i \in 0..(x.shape[2] - 1) |->
                      LET row == [j \in 1..T |-> x.at[n][i][j - 1]]
                      IN  IF \A j \in 1..T : row[j] = row[1]
                          THEN [j \in 0..(T - 1) |-> Num(Rat(1, T))] @@ <<>>
                          ELSE [j \in 0..(T - 1) |->
                                  Sym([f |-> "softmax", of |-> row, at |-> j + 1])]
                               @@ <<>>] @@ <<>>] @@ <<>>]

\* nn.Dropout(p)(x) in training mode: the entries in dropped become 0, the
\* others are scaled by 1 / (1 - p); p is given in percent
DropoutApply(p, dropped, x) ==
    LET factor == Rat(100, 100 - p)
    IN  T3(x.shape[1], x.shape[2], x.shape[3],
           LAMBDA n, i, j :
               IF <<n, i, j>> \in dropped THEN NInt(0)
               ELSE NScale(x.at[n][i][j], factor))

\* x.squeeze(1): only the query-length dimension is removed, when it is 1
Squeeze_Dim1(x) ==
    IF x.shape[2] = 1
    THEN [shape |-> <<x.shape[1], x.shape[3]>>,
          at |-> [b \in 0..(x.shape[1] - 1) |-> x.at[b][0]] @@ <<>>]
    ELSE x

\* x.squeeze(): every dimension of size 1 is removed
RECURSIVE SqueezeAt(_, _)
SqueezeAt(at, shape) ==
    IF shape = <<>> THEN at
    ELSE IF Head(shape) = 1 THEN SqueezeAt(at[0], Tail(shape))
    ELSE [i \in 0..(Head(shape) - 1) |-> SqueezeAt(at[i], Tail(shape))] @@ <<>>

Squeeze(x) ==
    [shape |-> SelectSeq(x.shape, LAMBDA n : n # 1), at |-> SqueezeAt(x.at, x.shape)]

(***************************************************************************)
(* MultiHeadAttention                                                      *)
(***************************************************************************)
NoTensor == [shape |-> <<0>>, at |-> <<>>]
NoDropout == [cls |-> "<None>", p |-> 0]

\* lines 47-73; dropout is PyNone or a rate in percent; the four linear layers
\* are initialised independently, seed picks the draw
MultiHeadAttention_init(d_model, k, q, v, h, dropout, discard_FC_before_MH, seed) ==
    [ _h |-> h,
      _k |-> k,
      _discard_FC_before_MH |-> discard_FC_before_MH,
      _W_q |-> LinearLayer(d_model, q * h, seed),
      _W_k |-> LinearLayer(d_model, k * h, seed + 1),
      _W_v |-> LinearLayer(d_model, v * h, seed + 2),
      _W_o |-> LinearLayer(h * v, d_model, seed),
      _scores |-> NoTensor,
      _scores_set |-> FALSE,
      _dropout |-> IF ~IsNone(dropout)
                   THEN [cls |-> "Dropout", p |-> dropout.v]
                   ELSE NoDropout,
      training |-> TRUE ]

\* self._W_k(key): nn.Linear, or nn.Sequential(nn.Linear, nn.Tanh) (lines 55-61)
KeyProjection(self, key) ==
    IF ~self._discard_FC_before_MH
    THEN LinearApply(self._W_k, key)
    ELSE TanhApply(LinearApply(self._W_k, key))

\* line 112: torch.bmm(queries, keys.transpose(1, 2)) / np.sqrt(self._k)
ScaledScores(self, queries, keysT) ==
    Scale(Bmm(queries, keysT), self._k)

\* lines 117-118: self._dropout(self._scores) when a dropout layer was built;
\* the layer acts in training mode only
DroppedScores(self, scores, dropped) ==
    IF self._dropout.cls # "<None>"
    THEN IF self.training THEN DropoutApply(self._dropout.p, dropped, scores)
         ELSE scores
    ELSE scores

\* lines 106-115: the projections split into heads and the normalized scores
\* of line 115, or the exception line 112 raises.  The code never reads mask.
AttentionScores(self, query, key, value) ==
    LET queries == SplitHeads(LinearApply(self._W_q, query), self._h)
        keys == SplitHeads(KeyProjection(self, key), self._h)
        values == SplitHeads(LinearApply(self._W_v, value), self._h)
        keysT == Transpose12(keys)
    IN  IF ~BmmShapesOk(queries, keysT)
        THEN [values |-> values, scores |-> NoTensor,
              err |-> Raise("RuntimeError", <<"bmm">>, 112)]
        ELSE [values |-> values,
              scores |-> Softmax(ScaledScores(self, queries, keysT)),
              err |-> NoError]

\* lines 117-128, from the normalized scores on: dropout, attention, the heads
\* concatenated, the output projection and squeeze
AttentionOutput(self, scored, dropped) ==
    IF scored.err # NoError
    THEN [self |-> self, ret |-> NoTensor, err |-> scored.err]
    ELSE
    LET scores == DroppedScores(self, scored.scores, dropped)
        after == [self EXCEPT !._scores = scores, !._scores_set = TRUE]
    IN  IF ~BmmShapesOk(scores, scored.values)
        THEN [self |-> after, ret |-> NoTensor,
              err |-> Raise("RuntimeError", <<"bmm">>, 120)]
        ELSE
        LET attention == Bmm(scores, scored.values)
            attention_heads == ConcatHeads(attention, self._h)
            self_attention == LinearApply(self._W_o, attention_heads)
        IN  [self |-> after, ret |-> Squeeze(self_attention), err |-> NoError]

\* lines 75-128.  Returns the instance after the call and the value returned
\* or the exception raised.
MultiHeadAttention_forward(self, query, key, value, mask, dropped) ==
    AttentionOutput(self, AttentionScores(self, query, key, value), dropped)

(***************************************************************************)
(* The MultiHeadAttention life cycle.                                      *)
(***************************************************************************)
NoCall ==
    [query |-> NoTensor, key |-> NoTensor, value |-> NoTensor, mask |-> NoneStr,
     dropped |-> {}, ret |-> NoTensor, err |-> NoError]

MaxSeqLen == 2

BatchSizes == {1, 2}
\* the constructor arguments explored:
\* <<d_model, k, q, v, h, dropout, discard_FC_before_MH>>
Instances ==
    {<<1, 1, 1, 1, 1, PyNone, FALSE>>,
     <<1, 1, 1, 1, 1, PyInt(50), FALSE>>,
     <<2, 4, 4, 2, 2, PyNone, TRUE>>,
     <<2, 1, 4, 1, 1, PyNone, FALSE>>}
Masks == {NoneStr, "subsequent"}
InputSeeds == {0}
WeightSeeds == {0, 1}

\* the entries of a tensor of the given shape
Entries(shape) == (0..(shape[1] - 1)) \X (0..(shape[2] - 1)) \X (0..(shape[3] - 1))

\* the sets of entries the dropout layer may zero in one call: the layer
\* zeroes every entry independently, so every subset of the entries
DropChoices(shape) == SUBSET Entries(shape)

\* the largest score tensor (in entries) a call is explored with while the
\* dropout layer acts
MaxDropEntries == 4

\* the dropout layer acts on the scores: one was built and the module is in
\* training mode (lines 117-118)
DropoutActs(self) == self._dropout.cls # "<None>" /\ self.training

\* an input tensor: every third entry of the flattened tensor is x, starting
\* where seed says, the others are 0
InputTensor(B, L, D, seed, x) ==
    T3(B, L, D, LAMBDA b, t, c :
                   NInt(IF (((b * L + t) * D + c) + seed) % 3 = 0 THEN x ELSE 0))

ConstructMHA ==
    /\ mpc = "new"
    /\ \E a \in Instances, seed \in WeightSeeds :
          mha' = MultiHeadAttention_init(a[1], a[2], a[3], a[4], a[5], a[6], a[7], seed)
    /\ mpc' = "ready"
    /\ UNCHANGED mlast
    /\ UNCHANGED fmVars

\* model.train() / model.eval()
SetTraining ==
    /\ mpc = "ready"
    /\ \E mode \in BOOLEAN :
          /\ mode # mha.training
          /\ mha' = [mha EXCEPT !.training = mode]
    /\ UNCHANGED <<mpc, mlast>>
    /\ UNCHANGED fmVars

\* one call of forward.  The calls explored: batch sizes in BatchSizes, key
\* lengths up to MaxSeqLen, query length 1 or the key length; while the dropout
\* layer acts, those whose scores have at most MaxDropEntries entries, with
\* every outcome of the layer
ForwardMHA ==
    /\ mpc = "ready"
    /\ \E B \in BatchSizes, T \in 1..MaxSeqLen, mask \in Masks, seed \in InputSeeds :
       \E Lq \in {1, T} :
          LET d_model == mha._W_q.in_features
              query == InputTensor(B, Lq, d_model, seed, 1)
              key == InputTensor(B, T, d_model, seed + 2, 2)
              value == InputTensor(B, T, d_model, seed + 1, 1)
              scored == AttentionScores(mha, query, key, value)
              drops == IF DropoutActs(mha) /\ scored.err = NoError
                       THEN DropChoices(scored.scores.shape)
                       ELSE {{}}
          IN  /\ DropoutActs(mha) => mha._h * B * Lq * T <= MaxDropEntries
              /\ \E dropped \in drops :
                 LET r == AttentionOutput(mha, scored, dropped)
                 IN  /\ mha' = r.self
                     /\ mlast' = [query |-> query, key |-> key, value |-> value,
                                  mask |-> mask, dropped |-> dropped,
                                  ret |-> r.ret, err |-> r.err]
    /\ UNCHANGED mpc
    /\ UNCHANGED fmVars

(***************************************************************************)
(* The FinalModel life cycle: construct once, then call forward.           *)
(***************************************************************************)
NoResult == Tensor("<none>", 0)

Construct ==
    /\ pc = "new"
    /\ \E c \in Configs :
          LET r == FinalModel_init(c) IN
          /\ cfg' = c
          /\ model' = r.model
          /\ error' = r.error
          /\ pc' = IF r.error = NoError THEN "constructed" ELSE "failed"
    /\ UNCHANGED result
    /\ UNCHANGED mhaVars

Forward ==
    /\ pc = "constructed"
    /\ result' = FinalModel_forward(model, Tensor("BCL", InputChannel))
    /\ UNCHANGED <<pc, cfg, model, error>>
    /\ UNCHANGED mhaVars

\* lines 12-26: the defaults of the arguments, held before any construction
DefaultConfig ==
    [ apply_final_activation |-> FALSE,
      multi_label_training |-> FALSE,
      down_sample |-> "conv",
      vary_channels |-> TRUE,
      pos_skip |-> "not_last",
      norm_type |-> "BN",
      norm_before_act |-> PyTrue,
      use_pre_activation_design |-> TRUE,
      use_pre_conv |-> TRUE,
      gru_units |-> 12,
      heads |-> 3,
      use_reduced_head_dims |-> PyNone,
      attention_activation_function |-> NoneStr,
      attention_type |-> "v2" ]

InitFM ==
    /\ pc = "new"
    /\ cfg = DefaultConfig
    /\ model = EmptyModel
    /\ error = NoError
    /\ result = NoResult

InitMHA ==
    /\ mpc = "new"
    /\ mha = NoLayer
    /\ mlast = NoCall

Init == InitFM /\ InitMHA

Next == Construct \/ Forward

Spec == Init /\ [][Next]_vars

NextMHA == ConstructMHA \/ SetTraining \/ ForwardMHA

SpecMHA == Init /\ [][NextMHA]_vars


(***************************************************************************)
(* Properties of FinalModel (specification Spec).                          *)
(***************************************************************************)
Attempted == pc # "new"
Constructed == pc = "constructed"
Rejected == pc = "failed"
Called == Constructed /\ result # NoResult

ValidDownSamples == {"conv", "max_pool", "avg_pool"}
ValidPosSkips == {"all", "not_last", "not_first"}
ValidAttentionTypes == {"v1", "v2", "v3", "v4", "v5"}

\* C1: every invalid configuration is rejected by construction: for every
\* pos_skip outside {"all", "not_last", "not_first"} __init__ fails in both
\* designs, a constructed model has all five residual blocks, and forward
\* never fails on a missing attribute.
C1_InvalidConfigurationRejected ==
    /\ (Attempted /\ cfg.pos_skip \notin ValidPosSkips) => Rejected
    /\ Constructed => ResidualBlocks \subseteq model.assigned
    /\ Called => result.err.type # "AttributeError"

\* C2 as stated: without the pre-activation design construction succeeds only
\* with normalization after activation: norm_before_act=True fails and
\* norm_before_act=False passes the check.
C2_Original_NormAfterActRequired ==
    (Attempted /\ ~cfg.use_pre_activation_design) =>
        /\ IsTrue(cfg.norm_before_act) => Rejected
        /\ cfg.norm_before_act = PyFalse => error.line # 55
        /\ Constructed => cfg.norm_before_act = PyFalse

\* C2 amended: without the pre-activation design construction succeeds only
\* if norm_before_act is None or True; norm_before_act=False fails the
\* assertion of line 55, and None and True pass it.
C2_NormBeforeActRequired ==
    (Attempted /\ ~cfg.use_pre_activation_design) =>
        /\ cfg.norm_before_act = PyFalse => Rejected
        /\ (IsNone(cfg.norm_before_act) \/ IsTrue(cfg.norm_before_act)) => error.line # 55
        /\ Constructed => (IsNone(cfg.norm_before_act) \/ IsTrue(cfg.norm_before_act))

C2_Witness ==
    /\ Rejected /\ ~cfg.use_pre_activation_design
    /\ cfg.norm_before_act = PyFalse /\ error.line = 55

\* C3: in the pre-activation design construction fails for pos_skip
\* "not_first" and for every other value outside {"all", "not_last"}; the
\* check of line 50 passes for "all" and "not_last".
C3_PreActivationPosSkip ==
    (Attempted /\ cfg.use_pre_activation_design) =>
        /\ cfg.pos_skip \notin {"all", "not_last"} => Rejected
        /\ cfg.pos_skip \in {"all", "not_last"} => error.line # 50

C3_Witness ==
    /\ Rejected /\ cfg.use_pre_activation_design
    /\ cfg.pos_skip = "not_first" /\ error.line = 50

\* C4: use_reduced_head_dims and attention_activation_function are valid only
\* with attention_type "v1": with any other attention_type, giving either of
\* them (not None) fails construction; with both None the checks of lines 39
\* and 42 pass for every attention_type.
C4_OptionsOnlyWithV1 ==
    Attempted =>
        /\ (cfg.attention_type # "v1" /\ ~IsNone(cfg.use_reduced_head_dims)) => Rejected
        /\ (cfg.attention_type # "v1" /\ cfg.attention_activation_function # NoneStr)
               => Rejected
        /\ (IsNone(cfg.use_reduced_head_dims) /\ cfg.attention_activation_function = NoneStr)
               => error.line \notin {39, 42}

C4_Witness ==
    /\ Rejected /\ cfg.attention_type = "v2"
    /\ cfg.use_reduced_head_dims = PyInt(4) /\ error.line = 39

\* C5 as stated: whenever use_reduced_head_dims is given (not None) and
\* 2*gru_units is not divisible by heads, construction fails, for every given
\* value.
C5_Original_DivisibleWheneverGiven ==
    (Attempted /\ ~IsNone(cfg.use_reduced_head_dims)
       /\ (2 * cfg.gru_units) % cfg.heads # 0) => Rejected

\* C5 amended: whenever use_reduced_head_dims is truthy (neither None nor 0 nor
\* False) and 2*gru_units is not divisible by heads, construction fails; for a
\* falsy value the check of line 46 is not made; no model whose attention layer
\* is built with a truthy use_reduced_head_dims has (2*gru_units) % heads # 0.
C5_DivisibleWhenTruthy ==
    Attempted =>
        /\ (Truthy(cfg.use_reduced_head_dims) /\ (2 * cfg.gru_units) % cfg.heads # 0)
               => Rejected
        /\ ~Truthy(cfg.use_reduced_head_dims) => error.line # 46
        /\ (Constructed /\ cfg.attention_type = "v1"
              /\ Truthy(model._multi_head_contextual_attention.use_reduced_head_dims))
               => (2 * cfg.gru_units) % cfg.heads = 0

C5_Witness ==
    /\ Rejected /\ error.line = 46
    /\ cfg.use_reduced_head_dims = PyInt(4) /\ (2 * cfg.gru_units) % cfg.heads # 0

\* C6: a down_sample outside {"conv", "max_pool", "avg_pool"} fails
\* construction whatever the other options are, at the first assertion and
\* before any layer is built; each of the three listed values passes it.
C6_DownSampleChecked ==
    Attempted =>
        /\ cfg.down_sample \notin ValidDownSamples =>
              /\ Rejected
              /\ error.line = 36
              /\ model.assigned = {"_apply_final_activation"}
        /\ cfg.down_sample \in ValidDownSamples => error.line # 36

C6_Witness ==
    /\ Rejected /\ cfg.down_sample = "nearest" /\ error.line = 36
    /\ ~cfg.use_pre_activation_design /\ cfg.attention_type = "v6"

\* the class attention_type selects
AttentionClass(attention_type) ==
    CASE attention_type = "v1" -> "MultiHeadContextualAttention"
      [] attention_type = "v2" -> "MultiHeadContextualAttentionV2"
      [] attention_type = "v3" -> "MultiHeadContextualAttentionV3"
      [] attention_type = "v4" -> "MultiHeadContextualAttentionV4"
      [] attention_type = "v5" -> "MultiHeadContextualAttentionV5"
      [] OTHER -> "<none>"

\* the lines at which __init__ rejects an argument before it reaches the
\* match statement
EarlierChecks == {36, 39, 42, 46, 50, 55, 81, 88}

\* C7: attention_type selects exactly one of the five variants; every
\* attention_type outside {"v1", .., "v5"} makes construction fail and no
\* attention layer is ever built for it (no fallback); unless an earlier check
\* has already rejected another argument, the failure is the ValueError of
\* line 275, whose message names the invalid value.
C7_AttentionTypeSelects ==
    Attempted =>
        /\ cfg.attention_type \notin ValidAttentionTypes =>
              /\ Rejected
              /\ "_multi_head_contextual_attention" \notin model.assigned
              /\ error.line \notin EarlierChecks =>
                    /\ error.type = "ValueError"
                    /\ error.line = 275
                    /\ Names(error, cfg.attention_type)
        /\ (Constructed /\ cfg.attention_type \in ValidAttentionTypes) =>
              /\ "_multi_head_contextual_attention" \in model.assigned
              /\ model._multi_head_contextual_attention.cls
                    = AttentionClass(cfg.attention_type)
        /\ Constructed => cfg.attention_type \in ValidAttentionTypes

C7_Witness ==
    /\ Rejected /\ cfg.attention_type = "v6"
    /\ error.type = "ValueError" /\ Names(error, "v6")

\* C8: forward applies a final activation exactly when apply_final_activation
\* is True: Sigmoid if multi_label_training, LogSoftmax over the class axis
\* otherwise; when it is False no final-activation layer is constructed,
\* forward does not read one and returns the output of the linear classifier.
C8_FinalActivation ==
    /\ Constructed =>
          ("_final_activation" \in model.assigned <=> cfg.apply_final_activation)
    /\ (Called /\ result.err = NoError) =>
          /\ result.act = IF cfg.apply_final_activation
                          THEN IF cfg.multi_label_training
                               THEN "Sigmoid" ELSE "LogSoftmax(dim=1)"
                          ELSE "none"
          /\ result.feat = NumClasses
          /\ result.trace[Len(result.trace) - (IF cfg.apply_final_activation THEN 1 ELSE 0)]
                = "_fcn"
          /\ (\E i \in DOMAIN result.trace : result.trace[i] = "_final_activation")
                <=> cfg.apply_final_activation
    /\ Called => ~(result.err.type = "AttributeError"
                   /\ Names(result.err, "_final_activation"))

C8_Witness ==
    /\ Called /\ result.err = NoError
    /\ cfg.apply_final_activation /\ ~cfg.multi_label_training
    /\ result.act = "LogSoftmax(dim=1)"


(***************************************************************************)
(* Properties of MultiHeadAttention (specification SpecMHA).               *)
(***************************************************************************)
MCalled == mpc = "ready" /\ mlast # NoCall
MReturned == MCalled /\ mlast.err = NoError

\* the batch size, query length, key length and d_model of the last call
LastB == mlast.query.shape[1]
LastLq == mlast.query.shape[2]
LastT == mlast.key.shape[2]
LastD == mlast.query.shape[3]

\* C9 as stated: used for pooling (query length 1), forward returns a tensor
\* of shape (batch, d_model) for every batch >= 1, T >= 1 and d_model >= 1.
C9_Original_PooledShape ==
    (MReturned /\ LastLq = 1) => mlast.ret.shape = <<LastB, LastD>>

\* C9 amended: used for pooling (query length 1), forward returns the
\* (batch, 1, d_model) result with every dimension of size 1 removed: shape
\* (batch, d_model) when batch >= 2 and d_model >= 2, (d_model) when batch = 1,
\* (batch) when d_model = 1, and a scalar when both are 1; the entries are
\* those of the unsqueezed result.
C9_PooledShapeSqueezed ==
    (MReturned /\ LastLq = 1) =>
        /\ (LastB >= 2 /\ LastD >= 2) => mlast.ret.shape = <<LastB, LastD>>
        /\ (LastB = 1 /\ LastD >= 2) => mlast.ret.shape = <<LastD>>
        /\ (LastB >= 2 /\ LastD = 1) => mlast.ret.shape = <<LastB>>
        /\ (LastB = 1 /\ LastD = 1) => mlast.ret.shape = <<>>

C9_Witness ==
    /\ MReturned /\ LastLq = 1 /\ LastT = 2
    /\ LastB = 1 /\ LastD = 2 /\ mlast.ret.shape = <<2>>

\* C10: called with mask="subsequent", every later key position (j > i) is
\* masked before the softmax, so its attention weight is 0 and the result
\* differs from that of the unmasked call whenever such a position exists;
\* called with mask=None, no position is masked.
C10_SubsequentMaskApplied ==
    (MReturned /\ mlast.dropped = {} /\ mlast.mask = "subsequent") =>
        /\ \A n \in 0..(mha._h * LastB - 1), i \in 0..(LastLq - 1), j \in 0..(LastT - 1) :
              j > i => mha._scores.at[n][i][j] = NInt(0)
        /\ LastT > 1 =>
              mlast.ret # MultiHeadAttention_forward(mha, mlast.query, mlast.key,
                                                     mlast.value, NoneStr, {}).ret

\* the normalized scores of the last call, computed from its inputs
LastNormalizedScores ==
    Softmax(ScaledScores(mha,
                         SplitHeads(LinearApply(mha._W_q, mlast.query), mha._h),
                         Transpose12(SplitHeads(KeyProjection(mha, mlast.key), mha._h))))

\* every term of x is non-negative (softmax weights are positive)
NonNegative(x) ==
    /\ x.c.n >= 0
    /\ \A t \in DOMAIN x.s : t.f = "softmax" /\ x.s[t].n >= 0

\* the weight of position j of a softmax row
Weight(row, j) == [f |-> "softmax", of |-> row, at |-> j]

\* the smallest coefficient x gives to the weights of a softmax row
Least(x, row) ==
    LET cs == {Coef(x, Weight(row, j)) : j \in 1..Len(row)}
    IN  CHOOSE m \in cs : \A o \in cs : ~RLess(o, m)

RECURSIVE LeastTotal(_, _)
LeastTotal(x, rows) ==
    IF rows = {} THEN RInt(0)
    ELSE LET row == CHOOSE r \in rows : TRUE
         IN  RAdd(Least(x, row), LeastTotal(x, rows \ {row}))

\* x with the weights of every softmax row it mentions reduced by their
\* smallest coefficient, which goes to the rational part: the weights of a row
\* sum to 1
Reduced(x) ==
    LET rows == {t.of : t \in {u \in DOMAIN x.s : u.f = "softmax"}}
        RowOf(t) == IF t.f = "softmax" THEN Least(x, t.of) ELSE RInt(0)
        less == [t \in DOMAIN x.s |-> RAdd(x.s[t], RMul(RInt(-1), RowOf(t)))]
        kept == {t \in DOMAIN x.s : less[t].n # 0}
    IN  [c |-> RAdd(x.c, LeastTotal(x, rows)), s |-> [t \in kept |-> less[t]]]

\* the sum of the T entries of a row of scores
RowSum(row, T) == Reduced(NSum(LAMBDA j : row[j], 0, T - 1))

\* C11: the retained scores are None before the first forward call; after any
\* sequence of calls they are the softmax scores of the most recent call, of
\* shape (batch*heads, query_len, key_len), with non-negative rows that sum to
\* 1, for every dropout setting and in training and evaluation mode.
C11_RetainedScoresNormalized ==
    /\ (mpc = "ready" /\ mlast = NoCall) => ~mha._scores_set
    /\ MReturned =>
          /\ mha._scores_set
          /\ mha._scores.shape = <<mha._h * LastB, LastLq, LastT>>
          /\ mha._scores = LastNormalizedScores
          /\ \A n \in 0..(mha._h * LastB - 1), i \in 0..(LastLq - 1) :
                /\ \A j \in 0..(LastT - 1) : NonNegative(mha._scores.at[n][i][j])
                /\ RowSum(mha._scores.at[n][i], LastT) = NInt(1)

(***************************************************************************)
(* Properties of FinalModel.forward (specification Spec).                  *)
(***************************************************************************)
FirstStageBlocks ==
    {"_first_conv_block_1", "_first_conv_block_2", "_first_conv_block_3",
     "_first_conv_block_4"}

\* what forward handed to attr: "pair", "tensor", or "<not called>"
HandedTo(attr) ==
    IF \E i \in DOMAIN result.handed : result.handed[i][1] = attr
    THEN result.handed[CHOOSE i \in DOMAIN result.handed : result.handed[i][1] = attr][2]
    ELSE "<not called>"

\* C12: for every configuration that constructs, forward hands every residual
\* block the kind of value it is built for (a pair to a pre-activation block, a
\* tensor to a post-activation block) and a tensor to permute and the GRU: in
\* the pre-activation design blocks 1-4 get a pair, the second-stage block
\* gets the pair with pos_skip "all" and the unwrapped tensor with "not_last";
\* without the pre-activation design every block gets a tensor.  No call ends
\* in an error of unpacking or of a block handed the wrong kind.
C12_BlocksHandedTheirShape ==
    Called =>
        /\ \A i \in DOMAIN result.handed :
              LET attr == result.handed[i][1]
                  kind == result.handed[i][2]
              IN  /\ attr \in ResidualBlocks =>
                        kind = IF model[attr].cls = "BasicBlock1dWithNormPreactivation"
                               THEN "pair" ELSE "tensor"
                  /\ attr \in {"permute", "_biGRU"} => kind = "tensor"
        /\ result.err.type \notin {"TypeError", "ValueError"}
        /\ ~(result.err.type = "AttributeError" /\ Names(result.err, "permute"))
        /\ cfg.use_pre_activation_design =>
              /\ \A b \in FirstStageBlocks : HandedTo(b) = "pair"
              /\ cfg.pos_skip = "all" => HandedTo("_second_conv_block_1") = "pair"
              /\ cfg.pos_skip = "not_last" => HandedTo("_second_conv_block_1") = "tensor"
              /\ HandedTo("permute") = "tensor"
        /\ ~cfg.use_pre_activation_design =>
              \A b \in ResidualBlocks : HandedTo(b) \in {"tensor", "<not called>"}

C12_Witness ==
    /\ Called /\ result.err = NoError
    /\ cfg.use_pre_activation_design /\ cfg.pos_skip = "not_last"
    /\ HandedTo("_first_conv_block_1") = "pair"
    /\ HandedTo("_second_conv_block_1") = "tensor"
    /\ model._second_conv_block_1.cls = "BasicBlock1dWithNorm"

\* a post-activation block built with skips_active = v
PostBlock(attr, v) ==
    /\ attr \in model.assigned
    /\ model[attr].cls = "BasicBlock1dWithNorm"
    /\ model[attr].skips_active = v

\* a pre-activation block (it always accumulates the residual)
PreBlock(attr) ==
    /\ attr \in model.assigned
    /\ model[attr].cls = "BasicBlock1dWithNormPreactivation"

\* C13: pos_skip determines which residual blocks have skips.  Without the
\* pre-activation design: "all" gives all five blocks skips_active=True,
\* "not_last" gives blocks 1-4 True and the second-stage block False,
\* "not_first" gives the first block False and the others True.  In the
\* pre-activation design: "all" builds five pre-activation blocks, "not_last"
\* builds blocks 1-4 as pre-activation blocks and the second-stage block as a
\* post-activation block with skips_active=False.  Blocks 2-4 have skips in
\* every configuration that constructs.
C13_PosSkipPlacesSkips ==
    Constructed =>
        /\ (~cfg.use_pre_activation_design /\ cfg.pos_skip = "all") =>
              \A b \in ResidualBlocks : PostBlock(b, PyTrue)
        /\ (~cfg.use_pre_activation_design /\ cfg.pos_skip = "not_last") =>
              /\ \A b \in FirstStageBlocks : PostBlock(b, PyTrue)
              /\ PostBlock("_second_conv_block_1", PyFalse)
        /\ (~cfg.use_pre_activation_design /\ cfg.pos_skip = "not_first") =>
              /\ PostBlock("_first_conv_block_1", PyFalse)
              /\ \A b \in ResidualBlocks \ {"_first_conv_block_1"} : PostBlock(b, PyTrue)
        /\ (cfg.use_pre_activation_design /\ cfg.pos_skip = "all") =>
              \A b \in ResidualBlocks : PreBlock(b)
        /\ (cfg.use_pre_activation_design /\ cfg.pos_skip = "not_last") =>
              /\ \A b \in FirstStageBlocks : PreBlock(b)
              /\ PostBlock("_second_conv_block_1", PyFalse)
        /\ \A b \in FirstStageBlocks \ {"_first_conv_block_1"} :
              PreBlock(b) \/ PostBlock(b, PyTrue)

C13_Witness ==
    /\ Constructed /\ ~cfg.use_pre_activation_design /\ cfg.pos_skip = "not_first"
    /\ PostBlock("_first_conv_block_1", PyFalse)
    /\ PostBlock("_second_conv_block_1", PyTrue)

(***************************************************************************)
(* Head splitting and concatenation (specification SpecMHA).               *)
(***************************************************************************)
\* a tensor of shape (B, L, D) whose entries are its flattened indices, so
\* that every entry tells where it came from
Tagged(B, L, D) == T3(B, L, D, LAMBDA b, t, c : NInt((b * L + t) * D + c))

\* the per-head value width of the instance
LastV == mha._W_v.out_features \div mha._h

\* the attention output of the last call, before the heads are concatenated
LastAttention ==
    Bmm(mha._scores, SplitHeads(LinearApply(mha._W_v, mlast.value), mha._h))

\* C14: splitting into heads sends element (b, t, i*d + j) of a (B, L, H*d)
\* tensor to (i*B + b, t, j) of a (H*B, L, d) tensor; concatenating sends
\* element (i*B + b, t, j) of a (H*B, Lq, v) tensor to (b, t, i*v + j) of a
\* (B, Lq, H*v) tensor; concatenating what was split gives the tensor back,
\* and the width fed to the output projection is H*v.
C14_SplitConcatInverse ==
    MReturned =>
        LET H == mha._h
            B == LastB
            L == LastT
            d == LastV
            x == Tagged(B, L, H * d)
            split == SplitHeads(x, H)
            y == Tagged(H * B, L, d)
            cat == ConcatHeads(y, H)
            heads == ConcatHeads(LastAttention, H)
        IN  /\ split.shape = <<H * B, L, d>>
            /\ \A b \in 0..(B - 1), t \in 0..(L - 1), i \in 0..(H - 1), j \in 0..(d - 1) :
                  split.at[i * B + b][t][j] = x.at[b][t][i * d + j]
            /\ cat.shape = <<B, L, H * d>>
            /\ \A b \in 0..(B - 1), t \in 0..(L - 1), i \in 0..(H - 1), j \in 0..(d - 1) :
                  cat.at[b][t][i * d + j] = y.at[i * B + b][t][j]
            /\ ConcatHeads(split, H) = x
            /\ heads.shape = <<B, LastLq, H * d>>
            /\ heads.shape[3] = mha._W_o.in_features

C14_Witness ==
    /\ MReturned /\ mha._h = 2 /\ LastB = 2 /\ LastT = 2 /\ LastV = 2
    /\ SplitHeads(Tagged(2, 2, 4), 2).at[3][1][1] = NInt(15)
    /\ ConcatHeads(LastAttention, 2).shape = <<2, LastLq, 4>>

(***************************************************************************)
(* Declared widths (specification Spec).                                   *)
(***************************************************************************)
\* the residual blocks in the order forward calls them
BlockOrder ==
    <<"_first_conv_block_1", "_first_conv_block_2", "_first_conv_block_3",
      "_first_conv_block_4", "_second_conv_block_1">>

\* C15: in every configuration that constructs, the declared widths agree at
\* every stage boundary: the preliminary convolution keeps input_channel
\* channels, the first block takes input_channel, each later block takes the
\* preceding block's out_channels, the GRU input_size is the second-stage
\* block's out_channels, and the attention d_model, the BatchNorm1d feature
\* count and the classifier in_features are 2*gru_units; with all five blocks
\* built, forward runs through without a width mismatch.
C15_WidthsAgree ==
    /\ Constructed =>
          /\ "_starting_conv" \in model.assigned =>
                /\ model._starting_conv.in_channels = InputChannel
                /\ model._starting_conv.out_channels = InputChannel
          /\ "_first_conv_block_1" \in model.assigned =>
                model._first_conv_block_1.in_channels = InputChannel
          /\ \A i \in 2..5 :
                ({BlockOrder[i - 1], BlockOrder[i]} \subseteq model.assigned) =>
                    model[BlockOrder[i]].in_channels = model[BlockOrder[i - 1]].out_channels
          /\ "_second_conv_block_1" \in model.assigned =>
                model._biGRU.input_size = model._second_conv_block_1.out_channels
          /\ model._biGRU.hidden_size = cfg.gru_units
          /\ model._multi_head_contextual_attention.d_model = 2 * cfg.gru_units
          /\ model._batchNorm.num_features = 2 * cfg.gru_units
          /\ model._fcn.in_features = 2 * cfg.gru_units
    /\ (Called /\ ResidualBlocks \subseteq model.assigned) => result.err = NoError

C15_Witness ==
    /\ Called /\ result.err = NoError /\ cfg.vary_channels
    /\ cfg.use_pre_activation_design /\ cfg.use_pre_conv
    /\ model._first_conv_block_1.out_channels = 24
    /\ model._first_conv_block_3.in_channels = 48
    /\ model._biGRU.input_size = 12
    /\ result.feat = NumClasses

(***************************************************************************)
(* The preliminary convolution (specification Spec).                       *)
(***************************************************************************)
\* the positions of the forward call at which it read attr
ReadsOf(attr) == {i \in DOMAIN result.trace : result.trace[i] = attr}

\* C16: the preliminary convolution is constructed, and applied by forward,
\* exactly when use_pre_activation_design and use_pre_conv are both True.
\* With use_pre_conv=True and no pre-activation design neither the flag nor
\* the preliminary convolution makes construction fail, none is built, and
\* forward hands the input to the first residual block.  forward never reads
\* a preliminary convolution that was not constructed; when it applies it,
\* it does so once, first, and before the first residual block.
C16_PreConvOnlyInPreActivation ==
    /\ Constructed =>
          ("_starting_conv" \in model.assigned
              <=> (cfg.use_pre_activation_design /\ cfg.use_pre_conv))
    /\ (Attempted /\ cfg.use_pre_conv /\ ~cfg.use_pre_activation_design) =>
          /\ "_starting_conv" \notin model.assigned
          /\ error.line \notin {81, 88}
          /\ Rejected => error.line \in {36, 39, 42, 46, 55, 275}
    /\ Called =>
          /\ ~(result.err.type = "AttributeError" /\ Names(result.err, "_starting_conv"))
          /\ (cfg.use_pre_activation_design /\ cfg.use_pre_conv) =>
                /\ ReadsOf("_starting_conv") = {1}
                /\ ReadsOf("_first_conv_block_1") = {2}
          /\ ~(cfg.use_pre_activation_design /\ cfg.use_pre_conv) =>
                /\ ReadsOf("_starting_conv") = {}
                /\ "_first_conv_block_1" \in model.assigned =>
                      ReadsOf("_first_conv_block_1") = {1}

C16_Witness ==
    /\ Called /\ result.err = NoError
    /\ cfg.use_pre_conv /\ ~cfg.use_pre_activation_design
    /\ "_starting_conv" \notin model.assigned
    /\ result.trace[1] = "_first_conv_block_1"

====
